---- MODULE Spec2Model ----
(***************************************************************************)
(* Presence and room-synchronisation engine of the metaverse application:  *)
(* the Socket.IO server (backend/src/server.ts) with its Registry          *)
(* (connectedUsers), Room Index (rooms), per-origin counters               *)
(* (ipConnections), per-socket data and the Socket.IO adapter rooms that   *)
(* decide who receives a broadcast; and the client store                   *)
(* (stores/metaverseStore.ts) that folds the inbound events into its       *)
(* world model.                                                            *)
(*                                                                         *)
(* Encoding of JavaScript values                                           *)
(*   string        a sequence of one-character strings                     *)
(*   falsy string  the empty sequence (undefined and '' are both falsy and *)
(*                 the code only ever tests these values for truthiness)   *)
(*   T | undefined a sequence of length at most one (None / Some)          *)
(*   number        a record [kind, val]; kind "finite", "NaN", "Infinity"  *)
(*                 or "notnumber"; rotations are counted in 1/1000 rad     *)
(*   payloads whose type the code tests: a record [type, ...]              *)
(***************************************************************************)
EXTENDS Integers, Sequences, FiniteSets, TLC

(* ------------------------------ bounds --------------------------------- *)
\* Date.now() when the server starts (ms); any value above the timeouts
StartTime == 1000000
\* the number of clock advances explored
MaxTicks == 1
\* longest per-connection queue of undelivered server events
MaxInbox == 1
\* the most events of one store waiting for the server
MaxOutbox == 2
\* the number of instants at which a chat message is sent
MaxChat == 102
\* the reconnections the model lets the timeouts of one store make
MaxAutoAttempts == 7
\* the longest chat history of the store of SpecReconcile
MaxKept == 2
\* the socket objects one store creates
MaxSockets == 2
\* the failed attempts the store of SpecConnectivity counts
MaxFailures == 6

(* --------------------------- configuration ----------------------------- *)
MAX_CONNECTIONS_PER_IP == 10
MAX_MESSAGE_LENGTH == 1000
MAX_USERNAME_LENGTH == 50
MAX_ROOM_NAME_LENGTH == 100
POSITION_UPDATE_INTERVAL == 100
INACTIVITY_TIMEOUT == 5 * 60 * 1000
\* Math.PI * 2 in 1/1000 rad, rounded down
TWO_PI_MILLI == 6283

(* ------------------------------ strings -------------------------------- *)
None == <<>>
Some(v) == <<v>>

Repeat(ch, n) == [i \in 1..n |-> ch]

IsWhitespace(ch) == ch = " "

RECURSIVE TrimStart(_)
TrimStart(s) ==
  IF s # <<>> /\ IsWhitespace(Head(s)) THEN TrimStart(Tail(s)) ELSE s

RECURSIVE TrimEnd(_)
TrimEnd(s) ==
  IF s # <<>> /\ IsWhitespace(s[Len(s)])
  THEN TrimEnd(SubSeq(s, 1, Len(s) - 1))
  ELSE s

trim(s) == TrimEnd(TrimStart(s))

NotAngleBracket(ch) == ch \notin {"<", ">"}

\* input.trim().replace(/[<>]/g, '')
sanitizeString(input) == SelectSeq(trim(input), NotAngleBracket)

(* ----------------------------- JS values ------------------------------- *)
JsString(s) == [type |-> "string", str |-> s]
JsNumber(n) == [type |-> "number", num |-> n]
JsUndefined == [type |-> "undefined"]
JsNull == [type |-> "null"]
JsObject(o) == [type |-> "object", obj |-> o]

Num(n) == [kind |-> "finite", val |-> n]
NaN == [kind |-> "NaN", val |-> 0]
NotANumber == [kind |-> "notnumber", val |-> 0]

Abs(n) == IF n < 0 THEN -n ELSE n

\* typeof v === 'number' && !isNaN(v) && isFinite(v)
IsFiniteNumber(v) == v.kind = "finite"

Pos(x, y, z, r) == [x |-> Num(x), y |-> Num(y), z |-> Num(z), rotation |-> Num(r)]

ZeroPosition == Pos(0, 0, 0, 0)

\* a validation of the types alone, without the bounds
validatePositionUnbounded(position) ==
  /\ position # None
  /\ LET p == position[1] IN
       /\ IsFiniteNumber(p.x) /\ IsFiniteNumber(p.y) /\ IsFiniteNumber(p.z)
       /\ IsFiniteNumber(p.rotation)

\* position is None (undefined / null) or Some(object with the four fields)
validatePosition(position) ==
  /\ position # None
  /\ LET p == position[1] IN
       /\ IsFiniteNumber(p.x) /\ IsFiniteNumber(p.y) /\ IsFiniteNumber(p.z)
       /\ IsFiniteNumber(p.rotation)
       /\ Abs(p.x.val) <= 1000 /\ Abs(p.y.val) <= 1000 /\ Abs(p.z.val) <= 1000
       /\ Abs(p.rotation.val) <= TWO_PI_MILLI

\* message is a JS value
validateMessage(message) ==
  /\ message.type = "string"
  /\ message.str # <<>>
  /\ LET sanitized == sanitizeString(message.str) IN
       Len(sanitized) > 0 /\ Len(sanitized) <= MAX_MESSAGE_LENGTH

\* userData is a JS value; an object carries username (JS value),
\* avatar and position (None / Some) and room (string, empty when absent)
validateUserData(userData) ==
  /\ userData.type = "object"
  /\ LET username == userData.obj.username IN
       /\ username.type = "string"
       /\ username.str # <<>>
       /\ LET sanitizedUsername == sanitizeString(username.str) IN
            /\ Len(sanitizedUsername) > 0
            /\ Len(sanitizedUsername) <= MAX_USERNAME_LENGTH

\* a validation of the room id without the length limit
validateRoomIdAnyLength(roomId) ==
  /\ roomId.type = "string"
  /\ roomId.str # <<>>
  /\ Len(sanitizeString(roomId.str)) > 0

validateRoomId(roomId) ==
  /\ roomId.type = "string"
  /\ roomId.str # <<>>
  /\ LET sanitized == sanitizeString(roomId.str) IN
       Len(sanitized) > 0 /\ Len(sanitized) <= MAX_ROOM_NAME_LENGTH

(* ------------------------- string constants ---------------------------- *)
LOBBY == <<"l", "o", "b", "b", "y">>
ANONYMOUS == <<"A", "n", "o", "n", "y", "m", "o", "u", "s">>
DEFAULT_ID == <<"d", "e", "f", "a", "u", "l", "t">>
DEFAULT_NAME == <<"D", "e", "f", "a", "u", "l", "t">>
DEFAULT_COLOR == <<"#", "3", "b", "8", "2", "f", "6">>

\* the avatar literal of joinRoom (245), updateAvatar (344-351) and
\* initializeUser (385-392)
DefaultAvatar ==
  [id |-> DEFAULT_ID, name |-> DEFAULT_NAME, model |-> DEFAULT_ID,
   color |-> DEFAULT_COLOR, accessories |-> <<>>, position |-> ZeroPosition]

(* ------------------------------ universe ------------------------------- *)
\* socket ids; a socket id is a string and is also the name of the
\* adapter room every socket joins when it connects
S1 == <<"s", "1">>
S2 == <<"s", "2">>
Conns == {S1, S2}

\* socket.handshake.address
handshakeAddress(c) == IF c = S1 THEN "10.0.0.1" ELSE "10.0.0.2"

\* ten more sockets of the origin of S2 (other tabs of the same host); they
\* connect and disconnect and send no event
IdleArrivals ==
  [i \in 1..MAX_CONNECTIONS_PER_IP |->
     <<"t", <<"0", "1", "2", "3", "4", "5", "6", "7", "8", "9">>[i]>>]

IdleSockets == {IdleArrivals[i] : i \in DOMAIN IdleArrivals}

\* every socket the server can be handed
Sockets == Conns \cup IdleSockets

R1 == <<"r", "1">>

\* roomId payloads of joinRoom
RoomIdInputs ==
  << JsString(LOBBY),
     JsString(<<" ", "<", "r", "1", ">", " ">>),
     JsString(<<"<", ">">>),
     JsUndefined >>

\* roomId payloads of joinRoom around the length limit and of other types:
\* 100 characters once sanitized, 101 characters, blank, a number, null
LongRoomIdInputs ==
  << JsString(<<" ", "<">> \o Repeat("r", MAX_ROOM_NAME_LENGTH)),
     JsString(Repeat("r", MAX_ROOM_NAME_LENGTH + 1)),
     JsString(<<" ", " ">>),
     JsNumber(Num(7)),
     JsNull >>

ALICE == <<"A", "l", "i", "c", "e">>
RED == <<"#", "F", "F", "0", "0", "0", "0">>

\* the avatar a client sends after choosing the colour red
RedAvatar == [DefaultAvatar EXCEPT !.color = RED]

\* userData payloads of initializeUser
UserDataInputs ==
  << JsObject([username |-> JsString(ALICE), avatar |-> None,
               position |-> None, room |-> <<>>]),
     JsObject([username |-> JsString(<<" ", "<", "B", "o", "b", ">">>),
               avatar |-> Some(RedAvatar),
               position |-> Some(Pos(1, 0, 2, 0)), room |-> R1]),
     JsObject([username |-> JsString(<<" ", " ">>), avatar |-> None,
               position |-> None, room |-> <<>>]),
     JsNull >>

\* position payloads of move
PositionInputs ==
  << Some(Pos(1, 0, 2, 0)),
     Some(Pos(5000, 0, 0, 0)),
     None,
     Some(Pos(-3, 0, 4, 1)),
     Some([Pos(0, 0, 0, 0) EXCEPT !.x = NaN]) >>

HI == <<"h", "i">>

\* data payloads of sendMessage
MessageInputs ==
  << JsObject([message |-> JsString(HI), type |-> JsUndefined]),
     JsObject([message |-> JsString(<<" ", "<", "h", ">", "i", " ">>),
               type |-> JsString(<<"s", "y", "s", "t", "e", "m">>)]),
     JsObject([message |-> JsString(<<"<", ">">>), type |-> JsUndefined]),
     JsNull >>

(* ------------------------------- state --------------------------------- *)
VARIABLES
  now,            \* Date.now()
  conn,           \* per socket: "new", "open" (handlers registered), "closed"
  connectedUsers, \* Registry: socket id -> UserData
  rooms,          \* Room Index: room id -> set of socket ids
  ipConnections,  \* origin -> number of connections
  socketData,     \* socket.data of every socket
  sioRooms,       \* adapter: the rooms every socket has joined (socket.join)
  lastMoveTime,   \* the closure variable of the move handler
  lastOp,         \* history: the handler that ran last and its payload
  lastEmit,       \* history: the events that handler emitted, per recipient
  inbox,          \* per socket: server events not yet handled by the client
  worldUsers,     \* per client: worldState.users
  messages,       \* per client: the chat history
  storeError,     \* per client: the error field of the store
  store,          \* the connection state of one browser's store
  outbox,         \* the events that store has emitted, not yet handled
  acceptedMoveAt, \* history: per socket, when its last move was accepted
  chatAccepted,   \* history: per client, every chat message it accepted
  handled         \* history: the event a store handled last, and its
                  \* world model before that

serverVars ==
  <<now, conn, connectedUsers, rooms, ipConnections, socketData, sioRooms,
    lastMoveTime, lastOp, lastEmit>>
clientVars == <<inbox, worldUsers, messages, storeError>>
linkVars == <<store, outbox>>
histVars == <<acceptedMoveAt, chatAccepted, handled>>
\* everything a server handler leaves alone
offServer == <<clientVars, linkVars, histVars>>
vars ==
  <<now, conn, connectedUsers, rooms, ipConnections, socketData, sioRooms,
    lastMoveTime, lastOp, lastEmit, inbox, worldUsers, messages, storeError,
    store, outbox, acceptedMoveAt, chatAccepted, handled>>

EmptyMap == [k \in {} |-> {}]

\* Map.set
MapSet(m, k, v) == [x \in DOMAIN m \cup {k} |-> IF x = k THEN v ELSE m[x]]
\* Map.delete
MapDelete(m, k) == [x \in DOMAIN m \ {k} |-> m[x]]

InitialSocketData ==
  [username |-> <<>>, avatar |-> None, position |-> None, currentRoom |-> <<>>]

\* the initial state of the store (188-203), with the state of the socket
\* object io() returns and the reconnect timeouts waiting to fire
InitialStore ==
  [hasSocket |-> FALSE, isConnected |-> FALSE, isConnecting |-> FALSE,
   connectionAttempts |-> 0, lastConnectionAttempt |-> 0,
   currentUser |-> None, isAuthenticated |-> FALSE, error |-> None,
   \* the socket object: "none" before io(url), then "opening",
   \* "connected" or "closed", and the id the server gave it
   io |-> "none", sid |-> None,
   \* the socket objects of earlier connectSocket calls, oldest first, each
   \* with its state and id; their handlers stay registered
   earlier |-> <<>>,
   \* the socket object the socket field refers to when hasSocket: 0 for
   \* the latest, k for the k-th earlier one
   held |-> 0,
   \* the instants at which the pending reconnect timeouts fire
   timers |-> {},
   \* history: the calls of socket.connect() made by reconnect timeouts
   autoAttempts |-> 0]

Init ==
  /\ now = StartTime
  /\ conn = [c \in Sockets |-> "new"]
  /\ connectedUsers = EmptyMap
  /\ rooms = EmptyMap
  /\ ipConnections = EmptyMap
  /\ socketData = [c \in Sockets |-> InitialSocketData]
  /\ sioRooms = [c \in Sockets |-> {}]
  /\ lastMoveTime = [c \in Sockets |-> 0]
  /\ lastOp = [op |-> "none", id |-> <<>>]
  /\ lastEmit = {}
  /\ inbox = [c \in Conns |-> <<>>]
  /\ worldUsers = [c \in Conns |-> <<>>]
  /\ messages = [c \in Conns |-> <<>>]
  /\ storeError = [c \in Conns |-> None]
  /\ store = InitialStore
  /\ outbox = <<>>
  /\ acceptedMoveAt = [c \in Sockets |-> None]
  /\ chatAccepted = [c \in Conns |-> <<>>]
  /\ handled = None

(* --------------------------- server helpers ---------------------------- *)
\* the sockets a broadcast to `room` reaches: socket.io delivers to the
\* connected sockets that joined the adapter room
InAdapterRoom(room) == {d \in Sockets : conn[d] = "open" /\ room \in sioRooms[d]}

\* a broadcast that does not leave out the sending socket
socketToAll(c, room) == InAdapterRoom(room)

\* socket.to(room).emit(...): everyone in the adapter room but the socket
socketTo(c, room) == InAdapterRoom(room) \ {c}

\* io.to(room).emit(...)
ioTo(room) == InAdapterRoom(room)

\* an activity update that touches every record
updateActivityOfAll(users, c) ==
  [u \in DOMAIN users |-> [users[u] EXCEPT !.lastActivity = now]]

\* updateActivity (194-198) applied to the Registry
updateActivity(users, c) ==
  IF c \in DOMAIN users THEN [users EXCEPT ![c].lastActivity = now] ELSE users

\* a leave that empties the set and keeps the room entry
RoomIndexLeaveKeepEmpty(idx, room, id) ==
  IF room \in DOMAIN idx THEN [idx EXCEPT ![room] = @ \ {id}] ELSE idx

\* rooms.get(room)?.delete(id), then rooms.delete(room) when the set is
\* empty (215-221, 162-168, 439-445)
RoomIndexLeave(idx, room, id) ==
  IF room \in DOMAIN idx
  THEN IF idx[room] \ {id} = {}
       THEN MapDelete(idx, room)
       ELSE [idx EXCEPT ![room] = @ \ {id}]
  ELSE idx

\* if (!rooms.has(room)) rooms.set(room, new Set()); rooms.get(room).add(id)
RoomIndexJoin(idx, room, id) ==
  IF room \in DOMAIN idx
  THEN [idx EXCEPT ![room] = @ \cup {id}]
  ELSE MapSet(idx, room, {id})

ErrorEvent(c, reason) == [to |-> c, event |-> "error", reason |-> reason]

(* ------------------------------ handlers ------------------------------- *)
\* io.on('connection') (178-191): admission control, then the handlers are
\* registered; a refused socket is closed and never gets a handler
\* a ceiling that lets one connection too many in
AboveCeiling(currentConnections) == currentConnections > MAX_CONNECTIONS_PER_IP

\* the connection limit check (183)
AtCeiling(currentConnections) == currentConnections >= MAX_CONNECTIONS_PER_IP

Connection(c) ==
  /\ conn[c] = "new"
  /\ LET clientIP == handshakeAddress(c)
         currentConnections ==
           IF clientIP \in DOMAIN ipConnections THEN ipConnections[clientIP] ELSE 0
     IN IF AtCeiling(currentConnections)
        THEN /\ conn' = [conn EXCEPT ![c] = "closed"]
             /\ lastOp' = [op |-> "refused", id |-> c]
             /\ UNCHANGED <<ipConnections, sioRooms>>
        ELSE /\ conn' = [conn EXCEPT ![c] = "open"]
             /\ ipConnections' = MapSet(ipConnections, clientIP, currentConnections + 1)
             /\ sioRooms' = [sioRooms EXCEPT ![c] = {c}]
             /\ lastOp' = [op |-> "connection", id |-> c]
  /\ lastEmit' = {}
  /\ UNCHANGED <<now, connectedUsers, rooms, socketData, lastMoveTime>>

\* the payload of userJoined (242-248)
UserJoinedPayload(c, sanitizedRoomId) ==
  [id |-> c,
   username |-> IF socketData[c].username # <<>>
                THEN socketData[c].username ELSE ANONYMOUS,
   avatar |-> IF socketData[c].avatar # None
              THEN socketData[c].avatar[1] ELSE DefaultAvatar,
   position |-> IF socketData[c].position # None
                THEN socketData[c].position[1] ELSE ZeroPosition,
   room |-> sanitizedRoomId]

\* the roomUsers snapshot (251-254); the array is modelled as a set
RoomUsersSnapshot(idx, users, c, sanitizedRoomId) ==
  {users[userId] :
     userId \in {u \in (IF sanitizedRoomId \in DOMAIN idx
                        THEN idx[sanitizedRoomId] ELSE {}) :
                   u # c /\ u \in DOMAIN users}}

\* socket.on('joinRoom') (201-263)
JoinRoom(c, roomId) ==
  /\ conn[c] = "open"
  /\ LET touched == updateActivity(connectedUsers, c) IN
     IF ~validateRoomId(roomId)
     THEN /\ connectedUsers' = touched
          /\ lastEmit' = {ErrorEvent(c, "Invalid room ID")}
          /\ lastOp' = [op |-> "joinRoom", id |-> c, accepted |-> FALSE,
                        room |-> <<>>, deleted |-> {}, roomId |-> roomId]
          /\ UNCHANGED <<rooms, socketData, sioRooms>>
     ELSE LET sanitizedRoomId == sanitizeString(roomId.str)
              currentRoom == socketData[c].currentRoom
              \* leave current room (213-222)
              leftIndex ==
                IF currentRoom # <<>>
                THEN RoomIndexLeave(rooms, currentRoom, c) ELSE rooms
              leftAdapter ==
                IF currentRoom # <<>>
                THEN sioRooms[c] \ {currentRoom} ELSE sioRooms[c]
              \* join new room (225-232)
              joinedIndex == RoomIndexJoin(leftIndex, sanitizedRoomId, c)
              \* update user data (235-239)
              users ==
                IF c \in DOMAIN touched
                THEN [touched EXCEPT ![c].room = sanitizedRoomId,
                                     ![c].lastActivity = now]
                ELSE touched
          IN /\ sioRooms' = [sioRooms EXCEPT ![c] = leftAdapter \cup {sanitizedRoomId}]
             /\ socketData' = [socketData EXCEPT ![c].currentRoom = sanitizedRoomId]
             /\ rooms' = joinedIndex
             /\ connectedUsers' = users
             /\ lastEmit' =
                  {[to |-> d, event |-> "userJoined",
                    user |-> UserJoinedPayload(c, sanitizedRoomId)] :
                     d \in socketTo(c, sanitizedRoomId)}
                  \cup {[to |-> c, event |-> "roomUsers",
                         users |-> RoomUsersSnapshot(joinedIndex, users, c,
                                                     sanitizedRoomId)]}
             /\ lastOp' = [op |-> "joinRoom", id |-> c, accepted |-> TRUE,
                           room |-> sanitizedRoomId, roomId |-> roomId,
                           deleted |-> DOMAIN rooms \ DOMAIN joinedIndex]
  /\ UNCHANGED <<now, conn, ipConnections, lastMoveTime>>

\* a rate limit of half the interval
TooFrequentHalf(c) == now - lastMoveTime[c] < POSITION_UPDATE_INTERVAL \div 2

\* the rate limit of move (271-274)
TooFrequent(c) == now - lastMoveTime[c] < POSITION_UPDATE_INTERVAL

\* socket.on('move') (266-302)
Move(c, position) ==
  /\ conn[c] = "open"
  /\ lastOp' = [op |-> "move", id |-> c, position |-> position,
                outcome |->
                  IF TooFrequent(c)
                  THEN "rateLimited"
                  ELSE IF ~validatePosition(position) THEN "invalid"
                  ELSE IF socketData[c].currentRoom # <<>> THEN "accepted"
                  ELSE "noRoom"]
  /\ LET touched == updateActivity(connectedUsers, c) IN
     IF TooFrequent(c)
     THEN \* ignore too frequent updates
          /\ connectedUsers' = touched
          /\ lastEmit' = {}
          /\ UNCHANGED <<socketData, lastMoveTime>>
     ELSE /\ lastMoveTime' = [lastMoveTime EXCEPT ![c] = now]
          /\ IF ~validatePosition(position)
             THEN /\ connectedUsers' = touched
                  /\ lastEmit' = {ErrorEvent(c, "Invalid position data")}
                  /\ UNCHANGED socketData
             ELSE IF socketData[c].currentRoom # <<>>
                  THEN /\ socketData' = [socketData EXCEPT ![c].position = position]
                       /\ connectedUsers' =
                            IF c \in DOMAIN touched
                            THEN [touched EXCEPT ![c].position = position[1],
                                                 ![c].lastActivity = now]
                            ELSE touched
                       /\ lastEmit' =
                            {[to |-> d, event |-> "userMoved", userId |-> c,
                              position |-> position[1]] :
                               d \in socketTo(c, socketData[c].currentRoom)}
                  ELSE /\ connectedUsers' = touched
                       /\ lastEmit' = {}
                       /\ UNCHANGED socketData
  /\ UNCHANGED <<now, conn, rooms, ipConnections, sioRooms>>

\* the message object of sendMessage (316-323); the random suffix of the id
\* is left out
ChatMessage(c, data) ==
  [id |-> now,
   userId |-> c,
   username |-> IF socketData[c].username # <<>>
                THEN socketData[c].username ELSE ANONYMOUS,
   message |-> sanitizeString(data.obj.message.str),
   timestamp |-> now,
   type |-> IF data.obj.type \in {JsString(<<"s", "y", "s", "t", "e", "m">>),
                                  JsString(<<"p", "r", "i", "v", "a", "t", "e">>)}
            THEN data.obj.type.str ELSE <<"c", "h", "a", "t">>]

\* socket.on('sendMessage') (305-331); reading data.message of a null
\* payload throws, and the catch block reports it to the sender
SendMessage(c, data) ==
  /\ conn[c] = "open"
  /\ lastOp' = [op |-> "sendMessage", id |-> c, data |-> data]
  /\ connectedUsers' = updateActivity(connectedUsers, c)
  /\ lastEmit' =
       IF data.type \in {"null", "undefined"}
       THEN {ErrorEvent(c, "Failed to send message")}
       ELSE IF ~(data.type = "object" /\ validateMessage(data.obj.message))
            THEN {ErrorEvent(c, "Invalid message")}
            ELSE IF socketData[c].currentRoom # <<>>
                 THEN {[to |-> d, event |-> "messageReceived",
                        message |-> ChatMessage(c, data)] :
                          d \in ioTo(socketData[c].currentRoom)}
                 ELSE {}
  /\ UNCHANGED <<now, conn, rooms, ipConnections, socketData, sioRooms,
                 lastMoveTime>>

HexDigits ==
  {"0", "1", "2", "3", "4", "5", "6", "7", "8", "9",
   "a", "b", "c", "d", "e", "f", "A", "B", "C", "D", "E", "F"}

\* /^#[0-9A-F]{6}$/i.test(color)
IsHexColor(color) ==
  /\ Len(color) = 7
  /\ color[1] = "#"
  /\ \A i \in 2..7 : color[i] \in HexDigits

\* avatar.<name> of an avatar object; a missing property is undefined
Property(o, name) == IF name \in DOMAIN o THEN o[name] ELSE JsUndefined

IsJsString(v) == v.type = "string"

\* avatar.accessories.filter(a => typeof a === 'string')
StringItems(items) ==
  LET strings == SelectSeq(items, IsJsString)
  IN [i \in 1..Len(strings) |-> strings[i].str]

\* validAvatar of updateAvatar (344-351)
ValidAvatar(o) ==
  [id |-> IF Property(o, "id").type = "string"
          THEN sanitizeString(o.id.str) ELSE DEFAULT_ID,
   name |-> IF Property(o, "name").type = "string"
            THEN sanitizeString(o.name.str) ELSE DEFAULT_NAME,
   model |-> IF Property(o, "model").type = "string"
             THEN sanitizeString(o.model.str) ELSE DEFAULT_ID,
   color |-> IF Property(o, "color").type = "string" /\ IsHexColor(o.color.str)
             THEN o.color.str ELSE DEFAULT_COLOR,
   accessories |-> IF Property(o, "accessories").type = "array"
                   THEN StringItems(o.accessories.items) ELSE <<>>,
   position |-> IF "position" \in DOMAIN o /\ validatePosition(o.position)
                THEN o.position[1] ELSE ZeroPosition]

\* avatar payloads of updateAvatar
AvatarInputs ==
  << JsObject([color |-> JsString(RED)]),
     JsNull >>

\* partial avatar payloads of updateAvatar: a name alone, and a colour that
\* is no #RRGGBB
PartialAvatarInputs ==
  << JsObject([name |-> JsString(<<"A", "l">>)]),
     JsObject([color |-> JsString(<<"r", "e", "d">>)]) >>

\* socket.on('updateAvatar') (334-372)
UpdateAvatar(c, avatar) ==
  /\ conn[c] = "open"
  /\ lastOp' = [op |-> "updateAvatar", id |-> c, avatar |-> avatar,
                accepted |-> avatar.type = "object"]
  /\ LET touched == updateActivity(connectedUsers, c) IN
     IF avatar.type # "object"
     THEN /\ connectedUsers' = touched
          /\ lastEmit' = {ErrorEvent(c, "Invalid avatar data")}
          /\ UNCHANGED socketData
     ELSE LET validAvatar == ValidAvatar(avatar.obj) IN
          /\ socketData' = [socketData EXCEPT ![c].avatar = Some(validAvatar)]
          /\ connectedUsers' =
               IF c \in DOMAIN touched
               THEN [touched EXCEPT ![c].avatar = validAvatar,
                                    ![c].lastActivity = now]
               ELSE touched
          /\ lastEmit' =
               IF socketData[c].currentRoom # <<>>
               THEN {[to |-> d, event |-> "avatarUpdated", userId |-> c,
                      avatar |-> validAvatar] :
                        d \in socketTo(c, socketData[c].currentRoom)}
               ELSE {}
  /\ UNCHANGED <<now, conn, rooms, ipConnections, sioRooms, lastMoveTime>>

\* socket.on('initializeUser') (375-419)
InitializeUser(c, userData) ==
  /\ conn[c] = "open"
  /\ lastOp' = [op |-> "initializeUser", id |-> c,
                accepted |-> validateUserData(userData)]
  /\ LET touched == updateActivity(connectedUsers, c) IN
     IF ~validateUserData(userData)
     THEN /\ connectedUsers' = touched
          /\ lastEmit' = {ErrorEvent(c, "Invalid user data")}
          /\ UNCHANGED socketData
     ELSE LET sanitizedUsername == sanitizeString(userData.obj.username.str)
              avatar == IF userData.obj.avatar # None
                        THEN userData.obj.avatar[1] ELSE DefaultAvatar
              position == IF validatePosition(userData.obj.position)
                          THEN userData.obj.position[1] ELSE ZeroPosition
              currentRoom == IF userData.obj.room # <<>>
                             THEN userData.obj.room ELSE LOBBY
          IN /\ socketData' =
                  [socketData EXCEPT ![c] =
                     [username |-> sanitizedUsername, avatar |-> Some(avatar),
                      position |-> Some(position), currentRoom |-> currentRoom]]
             /\ connectedUsers' =
                  MapSet(touched, c,
                         [id |-> c, username |-> sanitizedUsername,
                          avatar |-> avatar, position |-> position,
                          room |-> currentRoom, lastActivity |-> now,
                          connectionCount |-> 1, isActive |-> TRUE])
             \* "Join default room": an event named joinRoom sent to the client
             /\ lastEmit' = {[to |-> c, event |-> "joinRoom", roomId |-> currentRoom]}
  /\ UNCHANGED <<now, conn, rooms, ipConnections, sioRooms, lastMoveTime>>

\* a release that keeps the entry of an origin without connections
ReleasedKeepEntry(counts, clientIP) ==
  LET currentConnections ==
        IF clientIP \in DOMAIN counts THEN counts[clientIP] ELSE 0
  IN IF currentConnections > 0
     THEN MapSet(counts, clientIP, currentConnections - 1)
     ELSE counts

\* the connection count of the origin after a disconnect (426-434)
Released(counts, clientIP) ==
  LET currentConnections ==
        IF clientIP \in DOMAIN counts THEN counts[clientIP] ELSE 0
  IN IF currentConnections > 0
     THEN IF currentConnections - 1 = 0
          THEN MapDelete(counts, clientIP)
          ELSE MapSet(counts, clientIP, currentConnections - 1)
     ELSE counts

\* socket.on('disconnect') (422-456); socket.io has removed the socket from
\* every adapter room before the handler runs
Disconnect(c) ==
  /\ conn[c] = "open"
  /\ conn' = [conn EXCEPT ![c] = "closed"]
  /\ sioRooms' = [sioRooms EXCEPT ![c] = {}]
  /\ ipConnections' = Released(ipConnections, handshakeAddress(c))
  /\ LET currentRoom == socketData[c].currentRoom IN
     IF currentRoom # <<>>
     THEN /\ rooms' = RoomIndexLeave(rooms, currentRoom, c)
          /\ lastEmit' = {[to |-> d, event |-> "userLeft", userId |-> c] :
                            d \in socketTo(c, currentRoom)}
     ELSE /\ lastEmit' = {}
          /\ UNCHANGED rooms
  /\ lastOp' = [op |-> "disconnect", id |-> c,
                room |-> socketData[c].currentRoom,
                deleted |-> DOMAIN rooms \ DOMAIN rooms']
  /\ connectedUsers' = MapDelete(connectedUsers, c)
  \* the socket object and the closure of its handlers are unreachable once
  \* the handler has returned
  /\ socketData' = [socketData EXCEPT ![c] = InitialSocketData]
  /\ lastMoveTime' = [lastMoveTime EXCEPT ![c] = 0]
  /\ UNCHANGED now

\* a sweep that also takes the users whose age is the timeout itself
InactiveAtTimeout(users) ==
  {userId \in DOMAIN users : now - users[userId].lastActivity >= INACTIVITY_TIMEOUT}

\* the users cleanupInactiveUsers removes (156)
Inactive(users) ==
  {userId \in DOMAIN users : now - users[userId].lastActivity > INACTIVITY_TIMEOUT}

\* cleanupInactiveUsers (151-172), run by setInterval every minute
CleanupInactiveUsers ==
  /\ LET removed == Inactive(connectedUsers)
         \* the removed users whose record names room r
         leaving(r) == {u \in removed : connectedUsers[u].room = r}
         kept == {r \in DOMAIN rooms :
                    leaving(r) = {} \/ rooms[r] \ leaving(r) # {}}
     IN /\ connectedUsers' = [u \in DOMAIN connectedUsers \ removed |-> connectedUsers[u]]
        /\ rooms' = [r \in kept |-> rooms[r] \ leaving(r)]
        /\ lastOp' = [op |-> "cleanup", id |-> <<>>, removed |-> removed,
                      deleted |-> DOMAIN rooms \ kept]
  /\ lastEmit' = {}
  /\ UNCHANGED <<now, conn, ipConnections, socketData, sioRooms, lastMoveTime>>

\* time passes
Tick(d) ==
  /\ now + d <= StartTime + MaxTicks * (INACTIVITY_TIMEOUT + 1)
  /\ now' = now + d
  /\ lastOp' = [op |-> "tick", id |-> <<>>]
  /\ lastEmit' = {}
  /\ UNCHANGED <<conn, connectedUsers, rooms, ipConnections, socketData,
                 sioRooms, lastMoveTime>>

(* ------------------------------- client -------------------------------- *)
MAX_HISTORY == 100

\* s.includes(sub)
Includes(s, sub) ==
  \E i \in 1..(Len(s) - Len(sub) + 1) : SubSeq(s, i, i + Len(sub) - 1) = sub

SCRIPT_TAG == <<"<", "s", "c", "r", "i", "p", "t", ">">>
JAVASCRIPT_URL == <<"j", "a", "v", "a", "s", "c", "r", "i", "p", "t", ":">>

\* validateMessage of the store (164-172); message is a string
clientValidateMessage(message) ==
  /\ Len(trim(message)) > 0
  /\ Len(message) <= 1000
  /\ ~Includes(message, SCRIPT_TAG)
  /\ ~Includes(message, JAVASCRIPT_URL)

\* a validation of the username alone
clientValidateUserName(user) ==
  /\ Len(trim(user.username)) > 0
  /\ Len(user.username) <= 50

\* validateUser of the store (174-184), for the user objects the server sends
clientValidateUser(user) ==
  /\ Len(trim(user.username)) > 0
  /\ Len(user.username) <= 50
  /\ validatePosition(Some(user.position))

IndexOfUser(users, id) ==
  IF \E i \in 1..Len(users) : users[i].id = id
  THEN CHOOSE i \in 1..Len(users) :
         users[i].id = id /\ \A j \in 1..(i - 1) : users[j].id # id
  ELSE 0

\* a userJoined handler that adds the user without looking for its id
OnUserJoinedAppend(users, user) ==
  IF ~clientValidateUser(user) THEN users ELSE Append(users, user)

\* socket.on('userJoined') (294-318)
OnUserJoined(users, user) ==
  IF ~clientValidateUser(user)
  THEN users
  ELSE LET existingUserIndex == IndexOfUser(users, user.id) IN
       IF existingUserIndex > 0
       THEN [users EXCEPT ![existingUserIndex] = user]
       ELSE Append(users, user)

\* a userLeft handler written as users.splice(users.findIndex(...), 1):
\* the index -1 of an unknown id takes the last user out
OnUserLeftSplice(users, userId) ==
  LET existingUserIndex == IndexOfUser(users, userId)
      at == IF existingUserIndex > 0 THEN existingUserIndex ELSE Len(users)
  IN IF users = <<>>
     THEN users
     ELSE SubSeq(users, 1, at - 1) \o SubSeq(users, at + 1, Len(users))

\* socket.on('userLeft') (320-334)
OnUserLeft(users, userId) ==
  LET Other(user) == user.id # userId IN SelectSeq(users, Other)

\* socket.on('userMoved') (336-352)
OnUserMoved(users, userId, position) ==
  IF ~validatePosition(Some(position))
  THEN users
  ELSE [i \in 1..Len(users) |->
          IF users[i].id = userId
          THEN [users[i] EXCEPT !.position = position]
          ELSE users[i]]

\* a history that stops taking messages when it is full
FirstMessages(msgs) ==
  IF Len(msgs) > MAX_HISTORY THEN SubSeq(msgs, 1, MAX_HISTORY) ELSE msgs

\* messages.slice(-100)
LastMessages(msgs) ==
  IF Len(msgs) > MAX_HISTORY
  THEN SubSeq(msgs, Len(msgs) - MAX_HISTORY + 1, Len(msgs))
  ELSE msgs

\* socket.on('messageReceived') (354-366) and addMessage (548-562)
OnMessageReceived(msgs, message) ==
  IF ~clientValidateMessage(message.message)
  THEN msgs
  ELSE LastMessages(Append(msgs, message))

\* the client of socket c handles the oldest undelivered server event; the
\* store registers handlers for userJoined, userLeft, userMoved,
\* messageReceived and error (288-366) and none for roomUsers, avatarUpdated
\* and joinRoom
ClientReceive(c) ==
  /\ conn[c] = "open"
  /\ inbox[c] # <<>>
  /\ LET ev == Head(inbox[c]) IN
       /\ worldUsers' =
            [worldUsers EXCEPT ![c] =
               CASE ev.event = "userJoined" -> OnUserJoined(@, ev.user)
                 [] ev.event = "userLeft" -> OnUserLeft(@, ev.userId)
                 [] ev.event = "userMoved" -> OnUserMoved(@, ev.userId, ev.position)
                 [] OTHER -> @]
       /\ messages' =
            [messages EXCEPT ![c] =
               IF ev.event = "messageReceived"
               THEN OnMessageReceived(@, ev.message) ELSE @]
       /\ storeError' =
            [storeError EXCEPT ![c] =
               IF ev.event = "error" THEN Some(ev.reason) ELSE @]
  /\ inbox' = [inbox EXCEPT ![c] = Tail(@)]
  /\ UNCHANGED serverVars

\* the events of one handler run, queued for their recipients; a handler
\* sends at most one event to a socket, and the queue of a closed socket is
\* discarded
Deliver ==
  inbox' =
    [c \in Conns |->
       IF conn'[c] # "open" THEN <<>>
       ELSE LET mine == {e \in lastEmit' : e.to = c} IN
            IF mine = {} THEN inbox[c]
            ELSE Append(inbox[c], CHOOSE e \in mine : TRUE)]

\* the id of a peer in another tab
P2 == IdleArrivals[1]

\* a user object as userJoined carries it (server 242-248)
Peer(id, username, position) ==
  [id |-> id, username |-> username, avatar |-> DefaultAvatar,
   position |-> position, room |-> LOBBY]

\* the events of the server that reach the store of SpecReconcile: each
\* kind with payloads the store accepts and payloads its validation
\* rejects (a blank username, one of 51 characters, a position out of
\* bounds or not a number, a script URL)
InboundEvents ==
  << [event |-> "userJoined", user |-> Peer(S2, ALICE, Pos(1, 0, 2, 0))],
     [event |-> "userJoined", user |-> Peer(S2, <<"A", "l">>, Pos(-3, 0, 4, 1))],
     [event |-> "userJoined", user |-> Peer(P2, <<"B", "o">>, ZeroPosition)],
     [event |-> "userJoined", user |-> Peer(S2, <<" ", " ">>, Pos(7, 0, 7, 0))],
     [event |-> "userJoined",
      user |-> Peer(P2, Repeat("x", 51), Pos(7, 0, 7, 0))],
     [event |-> "userJoined", user |-> Peer(S2, ALICE, Pos(5000, 0, 0, 0))],
     [event |-> "userLeft", userId |-> S2],
     [event |-> "userLeft", userId |-> P2],
     [event |-> "userMoved", userId |-> S2, position |-> Pos(9, 0, 9, 0)],
     [event |-> "userMoved", userId |-> P2, position |-> Pos(9, 0, 9, 0)],
     [event |-> "userMoved", userId |-> S2, position |-> Pos(0, -1001, 0, 0)],
     [event |-> "userMoved", userId |-> S2,
      position |-> [Pos(8, 0, 8, 0) EXCEPT !.rotation = NaN]],
     [event |-> "messageReceived",
      message |-> [id |-> StartTime, userId |-> S2, username |-> ALICE,
                   message |-> HI, timestamp |-> StartTime,
                   type |-> <<"c", "h", "a", "t">>]],
     [event |-> "messageReceived",
      message |-> [id |-> StartTime, userId |-> S2, username |-> ALICE,
                   message |-> JAVASCRIPT_URL, timestamp |-> StartTime,
                   type |-> <<"c", "h", "a", "t">>]],
     [event |-> "messageReceived",
      message |-> [id |-> StartTime, userId |-> S2, username |-> ALICE,
                   message |-> <<" ">>, timestamp |-> StartTime,
                   type |-> <<"c", "h", "a", "t">>]],
     [event |-> "error", reason |-> "Invalid message"] >>

\* an event of the server arrives at the socket of client c, which has
\* handled everything that arrived before
Inbound(c, ev) ==
  /\ conn[c] = "open"
  /\ inbox[c] = <<>>
  /\ inbox' = [inbox EXCEPT ![c] = Append(@, ev)]
  /\ UNCHANGED <<serverVars, worldUsers, messages, storeError>>

(* ------------------------- client connection -------------------------- *)
MAX_RECONNECT_ATTEMPTS == 5
RECONNECT_DELAY == 2000

MAX_ATTEMPTS_REACHED ==
  "Maximum reconnection attempts reached. Please refresh the page."

\* the user object handleLogin builds (part_005 475-502) from a username
\* the login form accepted (part_005 395-397, 440-469)
LoginUser(username) ==
  [id |-> <<"u", "1">>, username |-> sanitizeString(username),
   avatar |-> RedAvatar, position |-> ZeroPosition, room |-> LOBBY]

\* the usernames typed into the login form
LoginNames == << ALICE, <<"B", "o">> >>

\* the initializeUser payload as the server handler sees it
ToUserData(user) ==
  JsObject([username |-> JsString(user.username), avatar |-> Some(user.avatar),
            position |-> Some(user.position), room |-> user.room])

\* the state of socket object k of store st: 0 is the latest
SocketIo(st, k) == IF k = 0 THEN st.io ELSE st.earlier[k].io

\* the id the server gave socket object k
SocketSid(st, k) == IF k = 0 THEN st.sid ELSE st.earlier[k].sid

SetSocketIo(st, k, io) ==
  IF k = 0 THEN [st EXCEPT !.io = io] ELSE [st EXCEPT !.earlier[k].io = io]

SetSocketSid(st, k, sid) ==
  IF k = 0 THEN [st EXCEPT !.sid = sid] ELSE [st EXCEPT !.earlier[k].sid = sid]

\* connectSocket (206-232): io(url, {forceNew: true}) makes a new socket
\* object each time; the one made before keeps its handlers
ConnectSocket ==
  /\ store' =
       IF store.connectionAttempts >= MAX_RECONNECT_ATTEMPTS
       THEN [store EXCEPT !.error = Some(MAX_ATTEMPTS_REACHED)]
       ELSE IF now - store.lastConnectionAttempt < RECONNECT_DELAY
            THEN store
            ELSE [store EXCEPT
                    !.isConnecting = TRUE, !.error = None,
                    !.io = "opening", !.sid = None,
                    !.earlier = IF store.io = "none"
                                THEN @
                                ELSE Append(@, [io |-> store.io, sid |-> store.sid]),
                    !.held = IF store.hasSocket /\ store.held = 0
                             THEN Len(store.earlier) + 1 ELSE @]
  /\ UNCHANGED outbox

\* a connect handler that announces nobody
AnnounceNobody(c) == outbox

\* the end of the connect handler (245-249)
AnnounceUser(c) ==
  IF store.currentUser # None
  THEN Append(outbox, [sid |-> c, event |-> "initializeUser",
                       user |-> store.currentUser[1]])
  ELSE outbox

\* socket.on('connect') (234-250) of socket object k; c is the id of the
\* new connection
ConnectHandler(k, c) ==
  /\ SocketIo(store, k) = "opening"
  /\ store' =
       SetSocketSid(
         SetSocketIo([store EXCEPT !.hasSocket = TRUE, !.held = k,
                                   !.isConnected = TRUE, !.isConnecting = FALSE,
                                   !.connectionAttempts = 0, !.error = None],
                     k, "connected"),
         k, Some(c))
  /\ outbox' = AnnounceUser(c)

\* the connect handler of the latest socket object
OnConnect(c) == ConnectHandler(0, c)

DisconnectReasons == {"io server disconnect", "transport close", "ping timeout"}

\* the events of the outbox that socket object k has not emitted
NotOf(k) ==
  LET Other(e) == Some(e.sid) # SocketSid(store, k) IN SelectSeq(outbox, Other)

\* socket.on('disconnect') (252-271) of socket object k; what the socket
\* had not sent is lost
DisconnectHandler(k, reason) ==
  /\ SocketIo(store, k) = "connected"
  /\ LET connectionAttempts == store.connectionAttempts + 1
         retry == /\ reason \in {"io server disconnect", "transport close"}
                  /\ connectionAttempts < MAX_RECONNECT_ATTEMPTS
     IN store' =
          SetSocketIo(
            [store EXCEPT !.isConnected = FALSE, !.isConnecting = FALSE,
                          !.connectionAttempts = connectionAttempts,
                          !.lastConnectionAttempt = now,
                          !.timers = IF retry THEN @ \cup {now + RECONNECT_DELAY} ELSE @,
                          !.error = IF ~retry /\ connectionAttempts >= MAX_RECONNECT_ATTEMPTS
                                    THEN Some(MAX_ATTEMPTS_REACHED) ELSE @],
            k, "closed")
  /\ outbox' = NotOf(k)

\* the disconnect handler of the latest socket object
OnDisconnect(reason) == DisconnectHandler(0, reason)

\* socket.on('connect_error') (273-286) of socket object k
ConnectErrorHandler(k) ==
  /\ SocketIo(store, k) = "opening"
  /\ store' =
       SetSocketIo([store EXCEPT !.isConnecting = FALSE,
                                 !.error = Some("Connection failed"),
                                 !.connectionAttempts = @ + 1,
                                 !.lastConnectionAttempt = now],
                   k, "closed")
  /\ UNCHANGED outbox

\* the connect_error handler of the latest socket object
OnConnectError == ConnectErrorHandler(0)

\* the store after reconnectSocket (401-406): socket.connect() on the
\* socket object the store holds does nothing on a socket that is
\* connected or connecting
Reconnected(st) ==
  IF st.hasSocket /\ SocketIo(st, st.held) = "closed"
  THEN SetSocketIo(st, st.held, "opening")
  ELSE st

\* reconnectSocket (401-406), called by the application
ReconnectSocket ==
  /\ store' = Reconnected(store)
  /\ UNCHANGED outbox

\* the timeout of the disconnect handler (263-265) fires and calls
\* reconnectSocket (401-406)
ReconnectTimer ==
  /\ store.autoAttempts < MaxAutoAttempts
  /\ \E due \in store.timers :
       /\ due <= now
       /\ store' = [Reconnected(store) EXCEPT
                      !.timers = @ \ {due},
                      !.autoAttempts = IF Reconnected(store) # store THEN @ + 1 ELSE @]
  /\ UNCHANGED outbox

\* disconnectSocket (388-399): socket.disconnect() on the socket object the
\* store holds runs its disconnect handler at once, with the reason
\* 'io client disconnect', when that socket is connected; then the
\* connection state is reset
DisconnectSocket ==
  LET k == store.held
      wasConnected == store.hasSocket /\ SocketIo(store, k) = "connected"
      connectionAttempts == store.connectionAttempts + 1
      afterHandler ==
        IF wasConnected
        THEN [store EXCEPT
                !.lastConnectionAttempt = now,
                !.error = IF connectionAttempts >= MAX_RECONNECT_ATTEMPTS
                          THEN Some(MAX_ATTEMPTS_REACHED) ELSE @]
        ELSE store
      closed == IF store.hasSocket THEN SetSocketIo(afterHandler, k, "closed") ELSE afterHandler
  IN /\ store' = [closed EXCEPT !.hasSocket = FALSE, !.held = 0,
                                !.isConnected = FALSE, !.isConnecting = FALSE,
                                !.connectionAttempts = 0]
     /\ outbox' = IF wasConnected THEN NotOf(k) ELSE outbox

\* setCurrentUser (409-433)
SetCurrentUser(user) ==
  IF ~clientValidateUser(user)
  THEN /\ store' = [store EXCEPT !.error = Some("Invalid user data")]
       /\ UNCHANGED outbox
  ELSE /\ store' = [store EXCEPT !.currentUser = Some(user),
                                 !.isAuthenticated = TRUE, !.error = None]
       /\ outbox' =
            IF store.hasSocket /\ SocketIo(store, store.held) = "connected"
            THEN Append(outbox, [sid |-> SocketSid(store, store.held)[1],
                                 event |-> "initializeUser", user |-> user])
            ELSE outbox

\* time passes until the next reconnect timeout is due
AwaitTimer ==
  /\ \E due \in store.timers :
       /\ due > now
       /\ \A other \in store.timers : due <= other
       /\ Tick(due - now)
  /\ UNCHANGED linkVars

(* --------------------------- specifications ---------------------------- *)
\* the amounts by which the clock advances between two events
TimeSteps == {INACTIVITY_TIMEOUT + 1}

\* The server alone: the membership and broadcast events any connection
\* can send, the sweep and the clock; no event is queued for a client.
\* Position updates are exercised in the end-to-end specification.
Next ==
  \/ \E c \in Conns : Connection(c) /\ UNCHANGED offServer
  \/ \E c \in Conns, i \in DOMAIN UserDataInputs :
       InitializeUser(c, UserDataInputs[i]) /\ UNCHANGED offServer
  \/ \E c \in Conns, i \in DOMAIN RoomIdInputs :
       JoinRoom(c, RoomIdInputs[i]) /\ UNCHANGED offServer
  \/ \E c \in Conns, i \in DOMAIN MessageInputs :
       SendMessage(c, MessageInputs[i]) /\ UNCHANGED offServer
  \/ \E c \in Conns, i \in DOMAIN AvatarInputs :
       UpdateAvatar(c, AvatarInputs[i]) /\ UNCHANGED offServer
  \/ \E c \in Conns : Disconnect(c) /\ UNCHANGED offServer
  \/ CleanupInactiveUsers /\ UNCHANGED offServer
  \/ \E d \in TimeSteps : Tick(d) /\ UNCHANGED offServer

Spec == Init /\ [][Next]_vars

\* Server and clients end to end: every event a handler emits is queued for
\* its recipient, and each client handles its queue in order.
Queued ==
  /\ Deliver
  /\ \A c \in Conns : Len(inbox'[c]) <= MaxInbox
  /\ UNCHANGED <<worldUsers, messages, storeError, linkVars, histVars>>

NextE2E ==
  \/ \E c \in Conns : Connection(c) /\ Queued
  \/ \E c \in Conns : InitializeUser(c, UserDataInputs[1]) /\ Queued
  \/ \E c \in Conns : JoinRoom(c, RoomIdInputs[1]) /\ Queued
  \/ \E c \in Conns : Move(c, PositionInputs[1]) /\ Queued
  \/ \E c \in Conns : Disconnect(c) /\ Queued
  \/ \E c \in Conns : ClientReceive(c) /\ UNCHANGED <<linkVars, histVars>>

SpecE2E == Init /\ [][NextE2E]_vars

\* the instants at which the position updates of SpecMove are sent: just
\* within the rate limit window of an update sent at StartTime, at its end,
\* and just within the window of an update sent at its end
MoveInstants ==
  {StartTime + POSITION_UPDATE_INTERVAL - 1,
   StartTime + POSITION_UPDATE_INTERVAL,
   StartTime + 2 * POSITION_UPDATE_INTERVAL - 1}

\* history: the time at which the move handler last accepted an update of c
NoteMove(c) ==
  acceptedMoveAt' =
    IF lastOp'.outcome = "accepted"
    THEN [acceptedMoveAt EXCEPT ![c] = Some(now)]
    ELSE acceptedMoveAt

\* Position updates: two connections that initialize, join the lobby and
\* move, with every position payload, under a clock that stops at the
\* instants around the rate limit window.
NextMove ==
  \/ \E c \in Conns : Connection(c) /\ UNCHANGED offServer
  \/ \E c \in Conns : InitializeUser(c, UserDataInputs[1]) /\ UNCHANGED offServer
  \/ \E c \in Conns : JoinRoom(c, RoomIdInputs[1]) /\ UNCHANGED offServer
  \/ \E c \in Conns, i \in DOMAIN PositionInputs :
       /\ Move(c, PositionInputs[i])
       /\ NoteMove(c)
       /\ UNCHANGED <<clientVars, linkVars, chatAccepted, handled>>
  \/ \E c \in Conns : Disconnect(c) /\ UNCHANGED offServer
  \/ \E t \in MoveInstants : t > now /\ Tick(t - now) /\ UNCHANGED offServer

SpecMove == Init /\ [][NextMove]_vars

\* Isolation: every handler of two connections, each with a payload it
\* accepts and a malformed one, and one step of the clock.
NextIsolation ==
  \/ \E c \in Conns : Connection(c) /\ UNCHANGED offServer
  \/ \E c \in Conns, i \in {1, 4} :
       InitializeUser(c, UserDataInputs[i]) /\ UNCHANGED offServer
  \/ \E c \in Conns, i \in {1, 4} :
       JoinRoom(c, RoomIdInputs[i]) /\ UNCHANGED offServer
  \/ \E c \in Conns, i \in {1, 2} :
       /\ Move(c, PositionInputs[i])
       /\ NoteMove(c)
       /\ UNCHANGED <<clientVars, linkVars, chatAccepted, handled>>
  \/ \E c \in Conns, i \in {1, 4} :
       SendMessage(c, MessageInputs[i]) /\ UNCHANGED offServer
  \/ \E c \in Conns, i \in DOMAIN AvatarInputs :
       UpdateAvatar(c, AvatarInputs[i]) /\ UNCHANGED offServer
  \/ \E c \in Conns : Disconnect(c) /\ UNCHANGED offServer
  \/ /\ now = StartTime
     /\ Tick(POSITION_UPDATE_INTERVAL)
     /\ UNCHANGED offServer

SpecIsolation == Init /\ [][NextIsolation]_vars

\* Admission: the origin of S2 opens up to eleven connections. Socket ids
\* are given in the order of arrival, so the idle sockets arrive in the
\* order of their names; S2 is the one connection of the origin that
\* initializes and joins a room.
NextAdmission ==
  \/ \E i \in DOMAIN IdleArrivals :
       /\ \A j \in 1..(i - 1) : conn[IdleArrivals[j]] # "new"
       /\ Connection(IdleArrivals[i])
       /\ UNCHANGED offServer
  \/ Connection(S2) /\ UNCHANGED offServer
  \/ InitializeUser(S2, UserDataInputs[1]) /\ UNCHANGED offServer
  \/ JoinRoom(S2, RoomIdInputs[1]) /\ UNCHANGED offServer
  \/ \E c \in IdleSockets \cup {S2} : Disconnect(c) /\ UNCHANGED offServer

SpecAdmission == Init /\ [][NextAdmission]_vars

\* the instants of SpecSweep: at the last one a record touched at StartTime
\* is 5 min and 1 ms old, one touched at the first instant exactly 5 min,
\* and one touched at the second 4 min 59 s
SweepInstants ==
  {StartTime + 1, StartTime + 1001, StartTime + INACTIVITY_TIMEOUT + 1}

\* The sweep: two connections that initialize, into the lobby or into r1,
\* and join rooms at different instants, and the sweep at any instant.
NextSweep ==
  \/ \E c \in Conns : Connection(c) /\ UNCHANGED offServer
  \/ \E c \in Conns, i \in {1, 2} :
       InitializeUser(c, UserDataInputs[i]) /\ UNCHANGED offServer
  \/ \E c \in Conns, i \in {1, 2} :
       JoinRoom(c, RoomIdInputs[i]) /\ UNCHANGED offServer
  \/ CleanupInactiveUsers /\ UNCHANGED offServer
  \/ \E t \in SweepInstants : t > now /\ Tick(t - now) /\ UNCHANGED offServer

SpecSweep == Init /\ [][NextSweep]_vars

\* Avatars: two connections that initialize, with the default avatar or a
\* red one, join the lobby and send partial avatars.
NextAvatar ==
  \/ \E c \in Conns : Connection(c) /\ UNCHANGED offServer
  \/ \E c \in Conns, i \in {1, 2} :
       InitializeUser(c, UserDataInputs[i]) /\ UNCHANGED offServer
  \/ \E c \in Conns : JoinRoom(c, RoomIdInputs[1]) /\ UNCHANGED offServer
  \/ \E c \in Conns, i \in DOMAIN PartialAvatarInputs :
       UpdateAvatar(c, PartialAvatarInputs[i]) /\ UNCHANGED offServer
  \/ \E c \in Conns : Disconnect(c) /\ UNCHANGED offServer

SpecAvatar == Init /\ [][NextAvatar]_vars

\* the variables the store's connection handlers leave alone
offLink == <<serverVars, clientVars, histVars>>

\* the events of the store that wait for the server stay within the bound
Sending == Len(outbox') <= MaxOutbox

\* Reconnection: one store, whose connectSocket the login calls once, and
\* every sequence of connect, disconnect and connect_error events its
\* socket can deliver, whatever the server does.
NextReconnect ==
  \/ \E i \in DOMAIN LoginNames :
       SetCurrentUser(LoginUser(LoginNames[i])) /\ Sending /\ UNCHANGED offLink
  \/ store.io = "none" /\ ConnectSocket /\ UNCHANGED offLink
  \/ OnConnect(S1) /\ Sending /\ UNCHANGED offLink
  \/ \E reason \in DisconnectReasons : OnDisconnect(reason) /\ UNCHANGED offLink
  \/ OnConnectError /\ UNCHANGED offLink
  \/ ReconnectTimer /\ UNCHANGED offLink
  \/ AwaitTimer /\ UNCHANGED <<clientVars, histVars>>

SpecReconnect == Init /\ [][NextReconnect]_vars

\* the server handles the oldest event the store has sent
ServerReceive ==
  /\ outbox # <<>>
  /\ conn[Head(outbox).sid] = "open"
  /\ InitializeUser(Head(outbox).sid, ToUserData(Head(outbox).user))
  /\ outbox' = Tail(outbox)
  /\ UNCHANGED store

\* Announcement: one store and the server. The server gives each new
\* connection of the store the next socket id; the store is told of a
\* connection the server has opened, and of a disconnection once the server
\* has closed it.
NextAnnounce ==
  \/ \E i \in DOMAIN LoginNames :
       SetCurrentUser(LoginUser(LoginNames[i])) /\ Sending /\ UNCHANGED offLink
  \/ store.io = "none" /\ ConnectSocket /\ UNCHANGED offLink
  \/ \E c \in Conns :
       /\ store.io = "opening"
       /\ \A d \in Conns : conn[d] # "open"
       /\ c = S2 => conn[S1] # "new"
       /\ Connection(c)
       /\ UNCHANGED offServer
  \/ \E c \in Conns :
       /\ conn[c] = "open"
       /\ OnConnect(c)
       /\ Sending
       /\ UNCHANGED offLink
  \/ ServerReceive /\ UNCHANGED <<clientVars, histVars>>
  \/ \E c \in Conns : Disconnect(c) /\ UNCHANGED offServer
  \/ /\ store.sid # None
     /\ conn[store.sid[1]] = "closed"
     /\ OnDisconnect("transport close")
     /\ UNCHANGED offLink
  \/ /\ \A d \in Conns : conn[d] # "open"
     /\ OnConnectError
     /\ UNCHANGED offLink
  \/ ReconnectTimer /\ UNCHANGED offLink
  \/ AwaitTimer /\ UNCHANGED <<clientVars, histVars>>

SpecAnnounce == Init /\ [][NextAnnounce]_vars

\* the sendMessage payloads of SpecHistory: a message every client keeps,
\* and one the server lets through and the client's validateMessage drops
ChatInputs ==
  << MessageInputs[1],
     JsObject([message |-> JsString(JAVASCRIPT_URL), type |-> JsUndefined]) >>

\* the instants at which the dropped message may be sent: while the
\* history fills, and when it is full
DroppedAt == {StartTime + 1, StartTime + MAX_HISTORY}

\* history: the chat messages client c has accepted, in arrival order
NoteChat(c) ==
  chatAccepted' =
    [chatAccepted EXCEPT ![c] =
       IF /\ Head(inbox[c]).event = "messageReceived"
          /\ clientValidateMessage(Head(inbox[c]).message.message)
       THEN Append(@, Head(inbox[c]).message)
       ELSE @]

\* Chat history: one connection in the lobby sends one message per
\* millisecond, so that every message differs from the others by its id,
\* and its client handles each echo before the next is sent.
NextHistory ==
  \/ /\ lastOp.op = "none"
     /\ Connection(S1)
     /\ Queued
  \/ /\ lastOp.op = "connection"
     /\ JoinRoom(S1, RoomIdInputs[1])
     /\ Queued
  \/ \E i \in DOMAIN ChatInputs :
       /\ lastOp.op \in {"joinRoom", "tick"}
       /\ inbox[S1] = <<>>
       /\ i = 2 => now \in DroppedAt
       /\ SendMessage(S1, ChatInputs[i])
       /\ Queued
  \/ /\ ClientReceive(S1)
     /\ NoteChat(S1)
     /\ UNCHANGED <<linkVars, acceptedMoveAt, handled>>
  \/ /\ lastOp.op = "sendMessage"
     /\ inbox[S1] = <<>>
     /\ now + 1 < StartTime + MaxChat
     /\ Tick(1)
     /\ UNCHANGED offServer

SpecHistory == Init /\ [][NextHistory]_vars

\* Joining: two connections that initialize, join the lobby or r1, and
\* send joinRoom with a room id at the length limit, beyond it, blank
\* or of another type.
NextJoin ==
  \/ \E c \in Conns : Connection(c) /\ UNCHANGED offServer
  \/ \E c \in Conns : InitializeUser(c, UserDataInputs[1]) /\ UNCHANGED offServer
  \/ \E c \in Conns, i \in DOMAIN RoomIdInputs :
       JoinRoom(c, RoomIdInputs[i]) /\ UNCHANGED offServer
  \/ \E c \in Conns, i \in DOMAIN LongRoomIdInputs :
       JoinRoom(c, LongRoomIdInputs[i]) /\ UNCHANGED offServer
  \/ \E c \in Conns : Disconnect(c) /\ UNCHANGED offServer

SpecJoin == Init /\ [][NextJoin]_vars

\* Origins: the origin of S2 opens up to eleven connections, in the order
\* of their names, and the origin of S1 one; S2 initializes and joins r1,
\* the clock passes the inactivity timeout, the sweep runs, S1 and S2
\* disconnect at any time and the other tabs are closed oldest first.
NextOrigin ==
  \/ \E i \in DOMAIN IdleArrivals :
       /\ \A j \in 1..(i - 1) : conn[IdleArrivals[j]] # "new"
       /\ Connection(IdleArrivals[i])
       /\ UNCHANGED offServer
  \/ \E c \in Conns : Connection(c) /\ UNCHANGED offServer
  \/ InitializeUser(S2, UserDataInputs[1]) /\ UNCHANGED offServer
  \/ JoinRoom(S2, RoomIdInputs[2]) /\ UNCHANGED offServer
  \/ CleanupInactiveUsers /\ UNCHANGED offServer
  \/ \E d \in TimeSteps : Tick(d) /\ UNCHANGED offServer
  \/ \E c \in Conns : Disconnect(c) /\ UNCHANGED offServer
  \/ \E i \in DOMAIN IdleArrivals :
       /\ \A j \in 1..(i - 1) : conn[IdleArrivals[j]] = "closed"
       /\ Disconnect(IdleArrivals[i])
       /\ UNCHANGED offServer

SpecOrigin == Init /\ [][NextOrigin]_vars

\* the socket objects of the store
SocketObjects == 0..Len(store.earlier)

\* Connectivity: one store and every sequence of connectSocket,
\* disconnectSocket and reconnectSocket calls and of connect, disconnect
\* and connect_error events of the socket objects it has created, before
\* and after the reconnect delay has passed.
NextConnectivity ==
  \/ /\ ConnectSocket
     /\ Len(store'.earlier) < MaxSockets
     /\ UNCHANGED offLink
  \/ DisconnectSocket /\ UNCHANGED offLink
  \/ ReconnectSocket /\ UNCHANGED offLink
  \/ \E k \in SocketObjects, c \in Conns :
       /\ \A j \in SocketObjects :
            SocketIo(store, j) = "connected" => SocketSid(store, j) # Some(c)
       /\ ConnectHandler(k, c)
       /\ UNCHANGED offLink
  \/ \E k \in SocketObjects, reason \in DisconnectReasons :
       DisconnectHandler(k, reason) /\ UNCHANGED offLink
  \/ \E k \in SocketObjects :
       /\ store.connectionAttempts < MaxFailures
       /\ ConnectErrorHandler(k)
       /\ UNCHANGED offLink
  \/ /\ now = StartTime
     /\ Tick(RECONNECT_DELAY)
     /\ UNCHANGED offServer

SpecConnectivity == Init /\ [][NextConnectivity]_vars

\* history: the event client c handles, and its known peers before it
NoteEvent(c) ==
  handled' = Some([to |-> c, event |-> Head(inbox[c]),
                   before |-> worldUsers[c]])

\* the history of the store stays within the bound
Kept(c) == Len(messages'[c]) <= MaxKept

\* Reconciliation: the store of one connection and every sequence of peer
\* events, valid and invalid, for two peers.
NextReconcile ==
  \/ Connection(S1) /\ UNCHANGED offServer
  \/ \E i \in DOMAIN InboundEvents :
       /\ Inbound(S1, InboundEvents[i])
       /\ UNCHANGED <<linkVars, histVars>>
  \/ /\ ClientReceive(S1)
     /\ NoteEvent(S1)
     /\ Kept(S1)
     /\ UNCHANGED <<linkVars, acceptedMoveAt, chatAccepted>>

SpecReconcile == Init /\ [][NextReconcile]_vars

(* ------------------------------ properties ----------------------------- *)
\* the Room Index sets that contain identity c
RoomsOf(c) == {r \in DOMAIN rooms : c \in rooms[r]}

\* the members of room r in the Room Index
Members(r) == IF r \in DOMAIN rooms THEN rooms[r] ELSE {}

\* the sockets the last handler sent event `name` to
SentTo(name) == {e.to : e \in {f \in lastEmit : f.event = name}}

\* C1: every UserRecord whose room is non-empty has its identity in the
\* Room Index set of that room (so it never names a room absent from the
\* Room Index).
C1_RecordIsRoomMember ==
  \A u \in DOMAIN connectedUsers :
    connectedUsers[u].room # <<>> => u \in Members(connectedUsers[u].room)

\* C2: a connection is a member of at most one Room Index set, and that set
\* is the one of the room recorded as the connection's current room.
C2_MemberOfCurrentRoomOnly ==
  \A c \in Conns :
    conn[c] = "open" =>
      /\ Cardinality(RoomsOf(c)) <= 1
      /\ \A r \in RoomsOf(c) : socketData[c].currentRoom = r

\* C3: every identity in a Room Index set has a UserRecord in the Registry.
C3_MembersAreRegistered ==
  \A r \in DOMAIN rooms : rooms[r] \subseteq DOMAIN connectedUsers

\* C4: a successful initializeUser joins the default / requested room: the
\* identity is in that room's set, every identity already in the room is
\* sent userJoined and the initializing connection is sent roomUsers.
C4_InitializeJoinsRoom ==
  (lastOp.op = "initializeUser" /\ lastOp.accepted) =>
    LET c == lastOp.id
        r == connectedUsers[c].room
    IN /\ c \in Members(r)
       /\ c \in SentTo("roomUsers")
       /\ \A d \in Members(r) \ {c} : conn[d] = "open" => d \in SentTo("userJoined")

\* C5: when B joins R by joinRoom, userJoined with B's id, username, avatar
\* and position goes to every other member of R and never to B, and the
\* roomUsers snapshot goes to B only and never contains B.
C5_JoinRoomNotifications ==
  (lastOp.op = "joinRoom" /\ lastOp.accepted) =>
    LET B == lastOp.id
        R == lastOp.room
    IN /\ \A d \in Members(R) \ {B} : conn[d] = "open" => d \in SentTo("userJoined")
       /\ B \notin SentTo("userJoined")
       /\ \A e \in lastEmit :
            e.event = "userJoined" =>
              /\ e.user.id = B
              /\ e.user.room = R
              /\ B \in DOMAIN connectedUsers =>
                   /\ e.user.username = connectedUsers[B].username
                   /\ e.user.avatar = connectedUsers[B].avatar
                   /\ e.user.position = connectedUsers[B].position
       /\ SentTo("roomUsers") = {B}
       /\ \A e \in lastEmit :
            e.event = "roomUsers" => \A u \in e.users : u.id # B

\* C5 witness: B joined a room that already had a member with a record, who
\* was notified, and B's snapshot holds that member.
C5_Witness ==
  /\ lastOp.op = "joinRoom" /\ lastOp.accepted
  /\ lastOp.id \in DOMAIN connectedUsers
  /\ \E d \in Members(lastOp.room) \ {lastOp.id} :
       /\ d \in SentTo("userJoined")
       /\ \E e \in lastEmit :
            e.event = "roomUsers" /\ e.to = lastOp.id
            /\ \E u \in e.users : u.id = d

\* C6: every identity in R's Room Index set at the instant J is inserted,
\* other than J, appears in the roomUsers snapshot J receives.
C6_SnapshotIsMembership ==
  (lastOp.op = "joinRoom" /\ lastOp.accepted) =>
    \A e \in lastEmit :
      e.event = "roomUsers" =>
        {u.id : u \in e.users} = Members(lastOp.room) \ {lastOp.id}

\* the identities client c knows
KnownPeers(c) == {worldUsers[c][i].id : i \in 1..Len(worldUsers[c])}

\* C7: once every event sent has been delivered and applied, the known
\* peers of each connected client that is in room R are exactly the other
\* members of R, each with the position and avatar the server holds.
C7_ClientsConverge ==
  (\A c \in Conns : inbox[c] = <<>>) =>
    \A c \in Conns :
      conn[c] = "open" =>
        \A R \in RoomsOf(c) :
          /\ KnownPeers(c) = Members(R) \ {c}
          /\ \A i \in 1..Len(worldUsers[c]) :
               LET peer == worldUsers[c][i] IN
               peer.id \in DOMAIN connectedUsers =>
                 /\ peer.position = connectedUsers[peer.id].position
                 /\ peer.avatar = connectedUsers[peer.id].avatar

\* C8: when A disconnects while a member of room R, every remaining member
\* of R is sent userLeft for A, A's UserRecord is removed, A is removed from
\* R's set, and R stays in the Room Index exactly when a member remains.
C8_DisconnectLeavesRoom ==
  [][\A A \in Conns :
       (conn[A] = "open" /\ conn'[A] = "closed") =>
         /\ A \notin DOMAIN connectedUsers'
         /\ \A R \in RoomsOf(A) :
              /\ \A d \in rooms[R] \ {A} :
                   conn[d] = "open" =>
                     [to |-> d, event |-> "userLeft", userId |-> A] \in lastEmit'
              /\ R \in DOMAIN rooms' <=> rooms[R] \ {A} # {}
              /\ R \in DOMAIN rooms' => A \notin rooms'[R]]_vars

\* C9: the Room Index holds no empty membership set: a room is a key of the
\* Room Index only while it has at least one member, whichever handler
\* removed the last one.
C9_NoEmptyRoom == \A r \in DOMAIN rooms : rooms[r] # {}

\* C9 witness: the sweep removed the last member of a room and deleted the
\* room, while another room is still there.
C9_Witness ==
  /\ lastOp.op = "cleanup"
  /\ lastOp.deleted # {}
  /\ DOMAIN rooms # {}

\* C10: a valid sendMessage from a connection whose current room is R is
\* delivered as messageReceived, with the sanitized body and type "chat"
\* when no type is given, to every member of R and the sender and to nobody
\* outside R; with no current room nothing is delivered.
C10_MessageReachesRoom ==
  (/\ lastOp.op = "sendMessage"
   /\ lastOp.data.type = "object"
   /\ validateMessage(lastOp.data.obj.message)) =>
    LET A == lastOp.id
        R == socketData[A].currentRoom
    IN IF R = <<>>
       THEN lastEmit = {}
       ELSE /\ A \in SentTo("messageReceived")
            /\ \A d \in Members(R) : conn[d] = "open" => d \in SentTo("messageReceived")
            /\ \A d \in SentTo("messageReceived") : d = A \/ d \in Members(R)
            /\ \A e \in lastEmit :
                 /\ e.event = "messageReceived"
                 /\ e.message.message = HI
                 /\ lastOp.data.obj.type = JsUndefined =>
                      e.message.type = <<"c", "h", "a", "t">>

\* the userMoved events among the events the handler of this step emitted
MovedEvents == {e \in lastEmit' : e.event = "userMoved"}

\* the position stored for socket c did not change in this step
PositionKept(c) ==
  /\ socketData'[c].position = socketData[c].position
  /\ c \in DOMAIN connectedUsers <=> c \in DOMAIN connectedUsers'
  /\ c \in DOMAIN connectedUsers =>
       connectedUsers'[c].position = connectedUsers[c].position

\* C11: an accepted move from a connection that is a member of room R
\* stores the position in the connection's UserRecord and sends userMoved,
\* with the mover's id and the position, to every other member of R and
\* not to the mover; a move from a connection that is a member of no room
\* changes no position and sends no userMoved.
C11_MoveReachesRoom ==
  [][\A A \in Conns :
       (lastOp'.op = "move" /\ lastOp'.id = A) =>
         /\ lastOp'.outcome = "accepted" =>
              \A R \in RoomsOf(A) :
                /\ A \in DOMAIN connectedUsers'
                /\ connectedUsers'[A].position = lastOp'.position[1]
                /\ \A d \in rooms[R] \ {A} :
                     conn[d] = "open" =>
                       [to |-> d, event |-> "userMoved", userId |-> A,
                        position |-> lastOp'.position[1]] \in lastEmit'
                /\ \A e \in MovedEvents : e.to # A
         /\ RoomsOf(A) = {} => PositionKept(A) /\ MovedEvents = {}]_vars

\* C12: a valid move sent less than 100 ms after the same connection's last
\* accepted move leaves the stored position as it was and sends nothing: no
\* userMoved to a peer, no error to the sender.
C12_SecondMoveDropped ==
  [][\A c \in Conns :
       (/\ lastOp'.op = "move" /\ lastOp'.id = c
        /\ validatePosition(lastOp'.position)
        /\ acceptedMoveAt[c] # None
        /\ now - acceptedMoveAt[c][1] < POSITION_UPDATE_INTERVAL) =>
         PositionKept(c) /\ lastEmit' = {}]_vars

\* C12 witness: a connection with a UserRecord and a peer in its room sent
\* a valid position, other than the stored one, 99 ms after its last
\* accepted move, and the update was dropped.
C12_Witness ==
  /\ lastOp.op = "move" /\ lastOp.outcome = "rateLimited"
  /\ validatePosition(lastOp.position)
  /\ lastOp.id \in DOMAIN connectedUsers
  /\ lastOp.position # Some(connectedUsers[lastOp.id].position)
  /\ acceptedMoveAt[lastOp.id] # None
  /\ now - acceptedMoveAt[lastOp.id][1] = POSITION_UPDATE_INTERVAL - 1
  /\ socketTo(lastOp.id, socketData[lastOp.id].currentRoom) # {}

\* the payloads of PositionInputs that are no position within bounds: x
\* out of range, no payload, x not a number
RejectedPositions == {PositionInputs[2], PositionInputs[3], PositionInputs[5]}

\* the move handler of this step ran for socket c with a rejected payload
InvalidMoveBy(c) ==
  lastOp'.op = "move" /\ lastOp'.id = c /\ lastOp'.position \in RejectedPositions

\* C13 as stated: every move whose position fails validation sends the
\* sender an error, keeps the stored position and sends no userMoved.
C13_InvalidMoveRejected ==
  [][\A c \in Conns :
       InvalidMoveBy(c) =>
         /\ ErrorEvent(c, "Invalid position data") \in lastEmit'
         /\ PositionKept(c)
         /\ MovedEvents = {}]_vars

\* C13 amended: a move whose position fails validation keeps the stored
\* position and sends no userMoved; the sender is sent an error exactly
\* when the move arrives 100 ms or more after the connection's last move
\* that passed the rate limit, and is dropped in silence otherwise.
C13_InvalidMoveRejectedUnlessDropped ==
  [][\A c \in Conns :
       InvalidMoveBy(c) =>
         /\ PositionKept(c)
         /\ MovedEvents = {}
         /\ IF now - lastMoveTime[c] >= POSITION_UPDATE_INTERVAL
            THEN lastEmit' = {ErrorEvent(c, "Invalid position data")}
            ELSE lastEmit' = {}]_vars

\* C13 witness: a connection with a stored position other than the origin
\* sent x = 5000, was sent the error, and its record keeps the position.
C13_Witness ==
  /\ lastOp.op = "move" /\ lastOp.outcome = "invalid"
  /\ lastOp.position = PositionInputs[2]
  /\ lastEmit = {ErrorEvent(lastOp.id, "Invalid position data")}
  /\ lastOp.id \in DOMAIN connectedUsers
  /\ connectedUsers[lastOp.id].position # ZeroPosition

\* the connections of an origin that are open
ActiveFrom(ip) == {c \in Sockets : conn[c] = "open" /\ handshakeAddress(c) = ip}

\* the counter of an origin, zero when the origin has no entry
CountOf(ip) == IF ip \in DOMAIN ipConnections THEN ipConnections[ip] ELSE 0

\* C14: the counter of an origin is the number of its open connections and
\* never exceeds 10 (so the closing of a refused connection took nothing
\* from it); a connection that arrives while its origin has 10 open
\* connections is closed, and the counters, the Registry and the Room Index
\* stay as they were; a closed connection has no UserRecord.
C14_AdmissionControl ==
  /\ [](\A c \in Sockets :
          /\ CountOf(handshakeAddress(c)) =
               Cardinality(ActiveFrom(handshakeAddress(c)))
          /\ CountOf(handshakeAddress(c)) <= MAX_CONNECTIONS_PER_IP
          /\ conn[c] = "closed" => c \notin DOMAIN connectedUsers)
  /\ [][\A c \in Sockets :
          (/\ conn[c] = "new" /\ conn'[c] # "new"
           /\ Cardinality(ActiveFrom(handshakeAddress(c))) >=
                MAX_CONNECTIONS_PER_IP) =>
            /\ conn'[c] = "closed"
            /\ sioRooms'[c] = {}
            /\ UNCHANGED <<ipConnections, connectedUsers, rooms, socketData>>]_vars

\* C14 witness: the eleventh connection of the origin was refused while ten
\* are open, one of them with a UserRecord and a room.
C14_Witness ==
  /\ lastOp.op = "refused"
  /\ conn[lastOp.id] = "closed"
  /\ CountOf(handshakeAddress(lastOp.id)) = MAX_CONNECTIONS_PER_IP
  /\ S2 \in DOMAIN connectedUsers
  /\ RoomsOf(S2) # {}

\* the UserRecords last touched more than five minutes ago
Overdue ==
  {u \in DOMAIN connectedUsers :
     now - connectedUsers[u].lastActivity > 5 * 60 * 1000}

\* the overdue users whose UserRecord names room r
OverdueIn(r) == {u \in Overdue : connectedUsers[u].room = r}

\* C15: the sweep removes exactly the UserRecords more than five minutes
\* old and leaves the other records as they are; it takes each removed
\* identity out of the Room Index set of the room its record names, deletes
\* a room exactly when that leaves it empty, and adds no room.
C15_SweepBoundary ==
  [][lastOp'.op = "cleanup" =>
       /\ DOMAIN connectedUsers' = DOMAIN connectedUsers \ Overdue
       /\ \A u \in DOMAIN connectedUsers' : connectedUsers'[u] = connectedUsers[u]
       /\ DOMAIN rooms' \subseteq DOMAIN rooms
       /\ \A r \in DOMAIN rooms :
            /\ r \in DOMAIN rooms' <=> rooms[r] \ OverdueIn(r) # {}
            /\ r \in DOMAIN rooms' => rooms'[r] = rooms[r] \ OverdueIn(r)]_vars

\* C15 witness: a sweep removed S1, whose record was 5 min and 1 ms old,
\* from the Registry and from its room, and kept S2, in the same room,
\* whose record is exactly 5 min old.
C15_Witness ==
  /\ lastOp.op = "cleanup"
  /\ lastOp.removed = {S1}
  /\ S2 \in DOMAIN connectedUsers
  /\ now - connectedUsers[S2].lastActivity = INACTIVITY_TIMEOUT
  /\ S2 \in Members(connectedUsers[S2].room)
  /\ socketData[S1].currentRoom = connectedUsers[S2].room
  /\ connectedUsers[S2].room \in sioRooms[S1]
  /\ S1 \notin Members(connectedUsers[S2].room)
  /\ lastOp.deleted = {}

AvatarFields == {"id", "name", "model", "color", "accessories", "position"}

\* C16: updateAvatar with a partial avatar is not rejected; every field the
\* payload does not provide keeps the value the connection's avatar had,
\* and a provided colour that is no #RRGGBB becomes the default colour.
C16_AvatarMerge ==
  [][\A c \in Conns :
       (/\ lastOp'.op = "updateAvatar" /\ lastOp'.id = c
        /\ lastOp'.avatar.type = "object"
        /\ c \in DOMAIN connectedUsers) =>
         LET partial == lastOp'.avatar.obj
             before == connectedUsers[c].avatar
             after == connectedUsers'[c].avatar
         IN /\ \A e \in lastEmit' : e.event # "error"
            /\ \A f \in AvatarFields \ DOMAIN partial : after[f] = before[f]
            /\ ("color" \in DOMAIN partial /\ ~IsHexColor(partial.color.str)) =>
                 after.color = DEFAULT_COLOR]_vars

\* the handler of this step refused its payload as malformed
Malformed ==
  \/ lastOp'.op \in {"joinRoom", "initializeUser", "updateAvatar"} /\ ~lastOp'.accepted
  \/ lastOp'.op = "sendMessage" /\ lastOp'.data.type # "object"
  \/ lastOp'.op = "move" /\ lastOp'.outcome = "invalid"

\* the UserRecord, the room membership, the socket data and the rate-limit
\* state of connection B are what they were before this step
Untouched(B) ==
  /\ B \in DOMAIN connectedUsers <=> B \in DOMAIN connectedUsers'
  /\ B \in DOMAIN connectedUsers => connectedUsers'[B] = connectedUsers[B]
  /\ {r \in DOMAIN rooms' : B \in rooms'[r]} = RoomsOf(B)
  /\ socketData'[B] = socketData[B]
  /\ lastMoveTime'[B] = lastMoveTime[B]

\* C17: an event of connection A leaves every other connection B
\* untouched; when its payload is malformed all it causes is an error sent
\* to A, and no error is ever sent to another connection; a UserRecord
\* changes only in a step of its own connection.
C17_Isolation ==
  [][/\ \A A \in Conns :
          lastOp'.id = A =>
            /\ \A B \in Conns \ {A} : Untouched(B)
            /\ \A e \in lastEmit' : e.event = "error" => e.to = A
            /\ Malformed => \A e \in lastEmit' : e.event = "error" /\ e.to = A
     /\ \A B \in Conns :
          (/\ B \in DOMAIN connectedUsers
           /\ B \in DOMAIN connectedUsers'
           /\ connectedUsers'[B] # connectedUsers[B]) => lastOp'.id = B]_vars

\* C17 witness: A sent sendMessage with a null payload and was sent the
\* error, while B, in the same room, holds a UserRecord touched before the
\* clock moved and a rate-limit state.
C17_Witness ==
  /\ lastOp.op = "sendMessage" /\ lastOp.data.type = "null"
  /\ lastEmit = {ErrorEvent(lastOp.id, "Failed to send message")}
  /\ \E B \in Conns \ {lastOp.id} :
       /\ B \in DOMAIN connectedUsers
       /\ connectedUsers[B].lastActivity < now
       /\ lastMoveTime[B] # 0
       /\ RoomsOf(B) # {}
       /\ RoomsOf(B) = RoomsOf(lastOp.id)

\* C18: the reconnect timeouts of the store call socket.connect() at most
\* five times; after that the store shows 'Maximum reconnection attempts
\* reached' and makes no further attempt.
C18_ReconnectBounded == store.autoAttempts <= MAX_RECONNECT_ATTEMPTS

\* C19: when the socket of the store becomes connected, the store sends
\* initializeUser with its local user if it has one and sends nothing if it
\* has none; when the server has handled that event, the Registry holds a
\* UserRecord for the new connection identity with the user's username.
C19_UserAnnouncedOnConnect ==
  [][/\ (store.io = "opening" /\ store'.io = "connected") =>
          outbox' =
            IF store.currentUser # None
            THEN Append(outbox, [sid |-> store'.sid[1], event |-> "initializeUser",
                                 user |-> store.currentUser[1]])
            ELSE outbox
     /\ (outbox # <<>> /\ outbox' = Tail(outbox) /\ store' = store) =>
          /\ Head(outbox).sid \in DOMAIN connectedUsers'
          /\ connectedUsers'[Head(outbox).sid].username =
               Head(outbox).user.username]_vars

\* C19 witness: after a reconnection made by the timeout the store holds
\* the second connection identity, and the server has handled the
\* announcement: the Registry holds the user under that identity.
C19_Witness ==
  /\ store.autoAttempts >= 1
  /\ store.io = "connected"
  /\ store.sid = Some(S2)
  /\ store.currentUser # None
  /\ lastOp.op = "initializeUser"
  /\ S2 \in DOMAIN connectedUsers
  /\ connectedUsers[S2].username = store.currentUser[1].username
  /\ S1 \notin DOMAIN connectedUsers

\* C20: the chat history of a client is the last min(n, 100) of the n
\* messages it accepted, in the order of their arrival, and so never holds
\* more than 100.
C20_HistoryIsLastHundred ==
  \A c \in Conns :
    LET n == Len(chatAccepted[c]) IN
    /\ Len(messages[c]) <= 100
    /\ messages[c] = SubSeq(chatAccepted[c], IF n > 100 THEN n - 99 ELSE 1, n)

\* C20 witness: the client accepted more than 100 messages with different
\* ids and dropped one; its history holds 100 and no longer the first.
C20_Witness ==
  /\ Len(chatAccepted[S1]) > 100
  /\ Len(chatAccepted[S1]) <= now - StartTime
  /\ Len(messages[S1]) = 100
  /\ messages[S1][1] = chatAccepted[S1][Len(chatAccepted[S1]) - 99]
  /\ messages[S1][1].id # chatAccepted[S1][1].id
  /\ messages[S1][100].id = now

\* the identities in the known-peer list of client c
KnownIds(c) == {worldUsers[c][i].id : i \in DOMAIN worldUsers[c]}

\* client c handles an event named `name` in this step
Handles(c, name) ==
  /\ inbox[c] # <<>>
  /\ Head(inbox[c]).event = name
  /\ inbox'[c] = Tail(inbox[c])

\* C21: no identity occurs twice in a client's known-peer list, and a
\* userJoined that passes validation for an identity the client knows
\* puts the event's user in the place of that peer, leaves the other
\* peers and the length of the list alone and sets no error.
C21_DuplicateJoinReplaces ==
  /\ [](\A c \in Conns :
          \A i, j \in DOMAIN worldUsers[c] :
            worldUsers[c][i].id = worldUsers[c][j].id => i = j)
  /\ [][\A c \in Conns :
          (/\ Handles(c, "userJoined")
           /\ clientValidateUser(Head(inbox[c]).user)
           /\ Head(inbox[c]).user.id \in KnownIds(c)) =>
            /\ Len(worldUsers'[c]) = Len(worldUsers[c])
            /\ \A i \in DOMAIN worldUsers[c] :
                 worldUsers'[c][i] =
                   IF worldUsers[c][i].id = Head(inbox[c]).user.id
                   THEN Head(inbox[c]).user ELSE worldUsers[c][i]
            /\ storeError'[c] = storeError[c]]_vars

\* C21 witness: a client that knew two peers handled a userJoined for the
\* first of them with another name and position, and now holds the two
\* peers, the first with the fields of the event.
C21_Witness ==
  /\ handled # None
  /\ handled[1].event.event = "userJoined"
  /\ Len(handled[1].before) = 2
  /\ handled[1].before[1].id = handled[1].event.user.id
  /\ handled[1].before[1] # handled[1].event.user
  /\ worldUsers[handled[1].to] = <<handled[1].event.user, handled[1].before[2]>>

\* C22: in every world model a second userLeft for the same identity
\* changes nothing the first did not; a userLeft handled right after the
\* same userLeft, or for an identity the client does not know, leaves the
\* known peers, the chat history and the error as they were.
C22_UserLeftIdempotent ==
  /\ [](\A c \in Conns : \A id \in {S2, P2} :
          OnUserLeft(OnUserLeft(worldUsers[c], id), id) =
            OnUserLeft(worldUsers[c], id))
  /\ [][\A c \in Conns :
          (/\ Handles(c, "userLeft")
           /\ \/ Head(inbox[c]).userId \notin KnownIds(c)
              \/ /\ handled # None
                 /\ handled[1].to = c
                 /\ handled[1].event = Head(inbox[c])) =>
            /\ worldUsers'[c] = worldUsers[c]
            /\ messages'[c] = messages[c]
            /\ storeError'[c] = storeError[c]]_vars

\* C22 witness: a client that knew one peer handled a userLeft for another
\* identity and still knows that peer.
C22_Witness ==
  /\ handled # None
  /\ handled[1].event.event = "userLeft"
  /\ handled[1].before # <<>>
  /\ \A i \in DOMAIN handled[1].before :
       handled[1].before[i].id # handled[1].event.userId
  /\ worldUsers[handled[1].to] = handled[1].before

\* the user objects the rules of the store reject
InvalidUser(user) ==
  \/ Len(trim(user.username)) = 0
  \/ Len(user.username) > 50
  \/ ~validatePosition(Some(user.position))

\* the events whose payload the rules of the store reject
InvalidEvent(ev) ==
  \/ ev.event = "userJoined" /\ InvalidUser(ev.user)
  \/ ev.event = "userMoved" /\ ~validatePosition(Some(ev.position))
  \/ /\ ev.event = "messageReceived"
     /\ \/ Len(trim(ev.message.message)) = 0
        \/ Len(ev.message.message) > 1000
        \/ Includes(ev.message.message, SCRIPT_TAG)
        \/ Includes(ev.message.message, JAVASCRIPT_URL)

\* C23: a client that handles a userJoined, userMoved or messageReceived
\* with an invalid payload keeps its known peers and its chat history as
\* they were, and no userMoved changes the identities it knows.
C23_InvalidEventDropped ==
  [][\A c \in Conns :
       (inbox[c] # <<>> /\ inbox'[c] = Tail(inbox[c])) =>
         /\ InvalidEvent(Head(inbox[c])) =>
              /\ worldUsers'[c] = worldUsers[c]
              /\ messages'[c] = messages[c]
         /\ Head(inbox[c]).event = "userMoved" =>
              /\ Len(worldUsers'[c]) = Len(worldUsers[c])
              /\ \A i \in DOMAIN worldUsers[c] :
                   worldUsers'[c][i].id = worldUsers[c][i].id]_vars

\* C23 witness: a client that knew a peer handled a userJoined for that
\* peer with a valid name and a position out of bounds, and holds the peer
\* as before, with a chat message in its history.
C23_Witness ==
  /\ handled # None
  /\ handled[1].event.event = "userJoined"
  /\ ~validatePosition(Some(handled[1].event.user.position))
  /\ Len(trim(handled[1].event.user.username)) > 0
  /\ \E i \in DOMAIN handled[1].before :
       /\ handled[1].before[i].id = handled[1].event.user.id
       /\ handled[1].before[i].username # handled[1].event.user.username
  /\ worldUsers[handled[1].to] = handled[1].before
  /\ messages[handled[1].to] # <<>>

\* C24: a client that handles a messageReceived the server has broadcast
\* appends that message to its chat history (the client accepts whatever
\* message body the server accepted).
C24_ClientAppliesBroadcast ==
  [][\A c \in Conns :
       Handles(c, "messageReceived") =>
         /\ messages'[c] # <<>>
         /\ messages'[c][Len(messages'[c])] = Head(inbox[c]).message]_vars

\* the room ids the rules reject: no string, empty once trimmed and
\* stripped of angle brackets, or longer than 100 characters
InvalidRoomId(roomId) ==
  \/ roomId.type # "string"
  \/ Len(SelectSeq(trim(roomId.str), NotAngleBracket)) = 0
  \/ Len(SelectSeq(trim(roomId.str), NotAngleBracket)) > 100

\* C25: a joinRoom with an invalid room id is refused: the error goes to
\* its sender and nothing else is sent, and the Room Index, the adapter
\* rooms, the per-socket data and the Registry stay as they were, but for
\* the activity time of the sender.
C25_InvalidJoinRejected ==
  [][(lastOp'.op = "joinRoom" /\ InvalidRoomId(lastOp'.roomId)) =>
       /\ ~lastOp'.accepted
       /\ lastEmit' = {ErrorEvent(lastOp'.id, "Invalid room ID")}
       /\ UNCHANGED <<rooms, sioRooms, socketData, conn, ipConnections>>
       /\ DOMAIN connectedUsers' = DOMAIN connectedUsers
       /\ \A u \in DOMAIN connectedUsers :
            connectedUsers'[u] =
              IF u = lastOp'.id
              THEN [connectedUsers[u] EXCEPT !.lastActivity = now]
              ELSE connectedUsers[u]]_vars

\* C25 witness: a connection with a UserRecord, in a room with another
\* member, sent a room id of 101 characters, was refused and is still a
\* member of that room.
C25_Witness ==
  /\ lastOp.op = "joinRoom"
  /\ ~lastOp.accepted
  /\ lastOp.roomId.type = "string"
  /\ Len(lastOp.roomId.str) = 101
  /\ lastOp.id \in DOMAIN connectedUsers
  /\ socketData[lastOp.id].currentRoom # <<>>
  /\ lastOp.id \in Members(socketData[lastOp.id].currentRoom)
  /\ Members(socketData[lastOp.id].currentRoom) # {lastOp.id}
  /\ lastEmit = {ErrorEvent(lastOp.id, "Invalid room ID")}

\* the origins of the sockets
Origins == {handshakeAddress(c) : c \in Sockets}

\* C26: an origin has an entry exactly when it has an open connection, and
\* the entry is the number of its open connections (so it is positive);
\* the admission of a connection adds one to the counter of its origin, its
\* disconnect takes one from it, and every other step, the arrival of a
\* refused connection and the sweep included, leaves the counter alone.
C26_CounterTracksConnections ==
  /\ [](\A ip \in Origins :
          /\ ip \in DOMAIN ipConnections <=> ActiveFrom(ip) # {}
          /\ ip \in DOMAIN ipConnections =>
               /\ ipConnections[ip] = Cardinality(ActiveFrom(ip))
               /\ ipConnections[ip] > 0)
  /\ [][\A c \in Sockets :
          LET ip == handshakeAddress(c)
              before == IF ip \in DOMAIN ipConnections THEN ipConnections[ip] ELSE 0
              after == IF ip \in DOMAIN ipConnections' THEN ipConnections'[ip] ELSE 0
          IN /\ (conn[c] = "new" /\ conn'[c] = "open") => after = before + 1
             /\ (conn[c] = "open" /\ conn'[c] = "closed") => after = before - 1
             /\ (\A d \in Sockets :
                   handshakeAddress(d) = ip =>
                     (conn[d] = "open" <=> conn'[d] = "open")) => after = before]_vars

\* C26 witness: S2, whose UserRecord the sweep had removed from the
\* Registry and from room r1, disconnected while its origin had ten open
\* connections and an eleventh had been refused, and the counter of the
\* origin is nine.
C26_Witness ==
  /\ lastOp.op = "disconnect"
  /\ lastOp.id = S2
  /\ lastOp.room = R1
  /\ lastOp.deleted = {}
  /\ now > StartTime + INACTIVITY_TIMEOUT
  /\ handshakeAddress(S2) \in DOMAIN ipConnections
  /\ ipConnections[handshakeAddress(S2)] = MAX_CONNECTIONS_PER_IP - 1
  /\ conn[IdleArrivals[1]] = "open"
  /\ conn[IdleArrivals[MAX_CONNECTIONS_PER_IP]] = "closed"

\* C27: when no connection is open, the Registry, the Room Index and the
\* per-origin counters are empty.
C27_NothingLeaked ==
  (\A c \in Sockets : conn[c] # "open") =>
    /\ DOMAIN connectedUsers = {}
    /\ DOMAIN rooms = {}
    /\ DOMAIN ipConnections = {}

\* C28: when connection c, whose joinRoom into room R has just sent
\* userJoined to member d, stops being a member of R in the next step
\* while d stays one, that step sends d userLeft for c.
C28_LeaveIsAnnounced ==
  [][\A c, d \in Conns :
       (/\ lastOp.op = "joinRoom" /\ lastOp.accepted /\ lastOp.id = c
        /\ \E e \in lastEmit :
             e.event = "userJoined" /\ e.to = d /\ e.user.id = c
        /\ c \in Members(lastOp.room)
        /\ lastOp.room \in DOMAIN rooms'
        /\ c \notin rooms'[lastOp.room]
        /\ d \in rooms'[lastOp.room]) =>
         \E e \in lastEmit' :
           e.event = "userLeft" /\ e.to = d /\ e.userId = c]_vars

\* C29: a move with a valid position, from a connection that is a member
\* of its current room and whose last accepted move, if any, is at least
\* 100 ms old, is accepted: the position is stored and userMoved goes to
\* the other sockets of the room.
C29_RejectedMoveOpensNoWindow ==
  [][\A c \in Conns :
       (/\ lastOp'.op = "move" /\ lastOp'.id = c
        /\ validatePosition(lastOp'.position)
        /\ socketData[c].currentRoom # <<>>
        /\ c \in Members(socketData[c].currentRoom)
        /\ \/ acceptedMoveAt[c] = None
           \/ now - acceptedMoveAt[c][1] >= POSITION_UPDATE_INTERVAL) =>
         /\ lastOp'.outcome = "accepted"
         /\ socketData'[c].position = lastOp'.position
         /\ \A d \in socketTo(c, socketData[c].currentRoom) :
              [to |-> d, event |-> "userMoved", userId |-> c,
               position |-> lastOp'.position[1]] \in lastEmit']_vars

\* C30: isConnected and isConnecting are never both true, and isConnected
\* is true only while the socket object created last is connected.
C30_OneConnectivityState ==
  /\ ~(store.isConnected /\ store.isConnecting)
  /\ store.isConnected => store.io = "connected"

====
